---------------------------- MODULE Spec2Model ----------------------------
(***************************************************************************)
(* dQache: a TCP key-value cache with a write-through storage.             *)
(*                                                                         *)
(* The module models                                                       *)
(*   - the eviction policies LeastRecentlyUsed and LeastFrequentlyUsed     *)
(*     (model.rs) as operators over an entry table and an iteration order  *)
(*     of the HashMap, and DeepQNetwork by what its run can return,        *)
(*   - Cache::set, Cache::get and Cache::remove (cache.rs),                *)
(*   - the accept loop of serve and its per-connection worker              *)
(*     (protocol.rs): the handshake, the request loop, the error dispatch, *)
(*     the cache mutex and the storage reader/writer lock.                 *)
(*                                                                         *)
(* The specifications share the variables:                                 *)
(*   SpecPolicy     select_victim applied to an arbitrary entry table,     *)
(*   SpecCache      any sequence of set / get / remove calls on one Cache, *)
(*   SpecSingle     the server with one connection, any client input,      *)
(*   SpecHandshake  the same for every server version,                     *)
(*   SpecFaulty     one connection, the storage engine can fail,           *)
(*   SpecDqn        one connection, the policy is the network,             *)
(*   Spec           the server with several connections,                   *)
(*   SpecFair       several connections on one key, fair scheduling,       *)
(*   SpecAccept     several connections, the accept loop can fail.         *)
(***************************************************************************)
EXTENDS Integers, Sequences, FiniteSets, TLC

(***************************************************************************)
(* Bounds of the model.                                                    *)
(***************************************************************************)
\* largest configured cache capacity that is explored
MaxCapacity == 2
\* largest reading of the clock (seconds since the epoch)
MaxTime == 2
\* access_count is not driven beyond this value
MaxCount == 3
\* number of request frames the connections send altogether
MaxRequests == 3
\* largest major, minor or patch number of a version
MaxVersionPart == 2

(***************************************************************************)
(* u64::MAX, the initial value of the running minimum in select_victim.    *)
(* It is represented by the largest integer of the model checker; what     *)
(* matters is that it is the top of the type.                              *)
(***************************************************************************)
U64_MAX == 2147483647

\* keys and values that requests carry (keys are non-empty strings)
Keys == {"a", "b", "c"}
Values == {"x", "y"}
\* String::new(), the empty string: never a key of a request
EmptyString == ""

\* the counting policies (Model::LeastRecentlyUsed, ::LeastFrequentlyUsed);
\* Model::DeepQNetwork is "DQN"
Models == {"LRU", "LFU"}

\* the connections the listener can accept
Conns == {"c1", "c2"}
NoConn == "none"
\* Rust editions: up to 2021 the temporaries of an `if let` scrutinee live to
\* the end of the whole `if let ... else`, from 2024 on they die before `else`
Editions == {2021, 2024}

VARIABLES
    entries,    \* Cache.entries: key -> Entry (a function on the cached keys)
    capacity,   \* Cache.capacity
    model,      \* the policy Cache.model was built with
    now,        \* the last reading of unix_epoch()
    call,       \* the last call of the harness specifications and what it returned
    storage,    \* Storage: key -> value, the durable copy
    edition,    \* the Rust edition of the build (scope of `if let` temporaries)
    version,    \* ARGUMENT.version, the server's version
    cacheLock,  \* the connection whose worker holds the Mutex<Cache>, or NoConn
    storageWriter,  \* the connection that holds the RwLock<Storage> for writing
    storageReaders, \* the connections that hold the RwLock<Storage> for reading
    pc,         \* per connection: where its worker is
    req,        \* per connection: the last frame read, with the locals of its handler
    out,        \* per connection: the frames sent since that frame was read
    nreq,       \* number of request frames read so far, over all connections
    acked,      \* per key: the value of the last SET answered OK, unless a
                \* later SET or DEL of the key has been read since, or
                \* Unsettled when that SET overlapped another SET or DEL of it
    expect      \* per connection: for the GET it handles, the value of the
                \* key that was settled when the GET was read, if no SET or
                \* DEL of the key has been read since

cacheVars == <<entries, capacity, model, now>>
serverVars == <<storage, edition, version, cacheLock, storageWriter, storageReaders,
                pc, req, out, nreq, acked, expect>>
vars == <<entries, capacity, model, now, call, storage, edition, version, cacheLock,
          storageWriter, storageReaders, pc, req, out, nreq, acked, expect>>

(***************************************************************************)
(* Entry (cache.rs)                                                        *)
(***************************************************************************)
\* Entry::new(value) at clock reading t
EntryNew(value, t) == [value |-> value, accessed_at |-> t, access_count |-> 1]

\* u64 `+=`: a release build wraps at u64::MAX (a debug build panics there);
\* the specifications keep the counts far below it
AddU64(a, b) == IF a > U64_MAX - b THEN a - (U64_MAX - b) - 1 ELSE a + b

\* the iteration orders a HashMap over the key set S can have
Orders(S) == {o \in [1..Cardinality(S) -> S] : \A i, j \in 1..Cardinality(S) : o[i] = o[j] => i = j}

NoEntries == [k \in {} |-> EntryNew("x", 0)]

\* the iteration orders a set of `key` can meet: Cache::set iterates (in
\* select_victim) only when the key is absent and the table is full
ScanOrders(table, cap, key) ==
    IF key \notin DOMAIN table /\ Cardinality(DOMAIN table) = cap
    THEN Orders(DOMAIN table)
    ELSE {<<>>}

(***************************************************************************)
(* Policies (model.rs)                                                     *)
(***************************************************************************)
RECURSIVE ScanAccessedAt(_, _, _, _, _)
\* the for loop of LeastRecentlyUsed::select_victim from position i on
ScanAccessedAt(table, order, i, minimum_accessed_at, minimum_key) ==
    IF i > Len(order) THEN minimum_key
    ELSE IF table[order[i]].accessed_at < minimum_accessed_at
         THEN ScanAccessedAt(table, order, i + 1, table[order[i]].accessed_at, order[i])
         ELSE ScanAccessedAt(table, order, i + 1, minimum_accessed_at, minimum_key)

RECURSIVE ScanAccessCount(_, _, _, _, _)
\* the for loop of LeastFrequentlyUsed::select_victim from position i on
ScanAccessCount(table, order, i, minimum_access_count, minimum_key) ==
    IF i > Len(order) THEN minimum_key
    ELSE IF table[order[i]].access_count < minimum_access_count
         THEN ScanAccessCount(table, order, i + 1, table[order[i]].access_count, order[i])
         ELSE ScanAccessCount(table, order, i + 1, minimum_access_count, minimum_key)

\* Err("entries length must be greater than 0")
EmptyCacheError == [ok |-> FALSE, key |-> EmptyString]

\* mutant: the scan never records the entry it found
LeastRecentlyUsedSelectVictimNoScan(table, order) ==
    IF Cardinality(DOMAIN table) = 0 THEN EmptyCacheError
    ELSE [ok |-> TRUE, key |-> EmptyString]

LeastRecentlyUsedSelectVictim(table, order) ==
    IF Cardinality(DOMAIN table) = 0 THEN EmptyCacheError
    ELSE [ok |-> TRUE, key |-> ScanAccessedAt(table, order, 1, U64_MAX, EmptyString)]

LeastFrequentlyUsedSelectVictim(table, order) ==
    IF Cardinality(DOMAIN table) = 0 THEN EmptyCacheError
    ELSE [ok |-> TRUE, key |-> ScanAccessCount(table, order, 1, U64_MAX, EmptyString)]

\* what one call of DeepQNetwork::select_victim meets on a table that is
\* not empty: the iteration order that fills `keys`, the index of the
\* lowest score in the output of the network, which is not part of the
\* sources, and whether unix_epoch() or the run of the network returned an
\* error
DeepQNetworkRuns(table) ==
    [keys : Orders(DOMAIN table),
     minimum_index : 1..Cardinality(DOMAIN table),
     failed : BOOLEAN]

\* the error of unix_epoch()? or of self.model.run(..)? in select_victim
InferenceError == [ok |-> FALSE, key |-> EmptyString]

\* DeepQNetwork::select_victim: keys[minimum_index], indices from 1
DeepQNetworkSelectVictim(table, run) ==
    IF Cardinality(DOMAIN table) = 0 THEN EmptyCacheError
    ELSE IF run.failed THEN InferenceError
    ELSE [ok |-> TRUE, key |-> run.keys[run.minimum_index]]

\* self.model.select_victim(&self.entries): the dynamic dispatch on the
\* policy; `order` is the iteration order, for the network its run
SelectVictim(m, table, order) ==
    IF m = "LRU" THEN LeastRecentlyUsedSelectVictim(table, order)
    ELSE IF m = "LFU" THEN LeastFrequentlyUsedSelectVictim(table, order)
    ELSE DeepQNetworkSelectVictim(table, order)

\* what a set of `key` can meet in select_victim under policy m
Scans(table, cap, m, key) ==
    IF m = "DQN" /\ DOMAIN table # {} /\ ScanOrders(table, cap, key) # {<<>>}
    THEN DeepQNetworkRuns(table)
    ELSE ScanOrders(table, cap, key)

\* the message of the error select_victim returned on the table
SelectVictimErrorMessage(table) ==
    IF DOMAIN table = {} THEN "entries length must be greater than 0"
    ELSE "victim must be selected"

(***************************************************************************)
(* Cache (cache.rs)                                                        *)
(***************************************************************************)
\* HashMap::remove
MapRemove(table, key) == [k \in DOMAIN table \ {key} |-> table[k]]

\* HashMap::insert
MapInsert(table, key, entry) ==
    [k \in DOMAIN table \cup {key} |-> IF k = key THEN entry ELSE table[k]]

\* mutant: a full cache inserts without evicting
CacheSetWithoutEviction(table, cap, m, key, entry, order) ==
    IF key \in DOMAIN table
    THEN [ok |-> TRUE,
          entries |-> [table EXCEPT ![key] =
                          [value |-> entry.value,
                           accessed_at |-> entry.accessed_at,
                           access_count |-> AddU64(@.access_count, entry.access_count)]],
          victim |-> EmptyString, evicted |-> FALSE]
    ELSE [ok |-> TRUE, entries |-> MapInsert(table, key, entry),
          victim |-> EmptyString, evicted |-> FALSE]

\* mutant: a set on a cached key replaces the whole entry, its count included
CacheSetReplacesEntry(table, cap, m, key, entry, order) ==
    IF key \in DOMAIN table
    THEN [ok |-> TRUE, entries |-> MapInsert(table, key, entry),
          victim |-> EmptyString, evicted |-> FALSE]
    ELSE IF Cardinality(DOMAIN table) = cap
         THEN LET selected == SelectVictim(m, table, order) IN
              IF ~selected.ok
              THEN [ok |-> FALSE, entries |-> table, victim |-> EmptyString, evicted |-> FALSE]
              ELSE [ok |-> TRUE,
                    entries |-> MapInsert(MapRemove(table, selected.key), key, entry),
                    victim |-> selected.key,
                    evicted |-> selected.key \in DOMAIN table]
         ELSE [ok |-> TRUE, entries |-> MapInsert(table, key, entry),
               victim |-> EmptyString, evicted |-> FALSE]

\* mutant: a set on a cached key keeps the old value
CacheSetKeepsOldValue(table, cap, m, key, entry, order) ==
    IF key \in DOMAIN table
    THEN [ok |-> TRUE,
          entries |-> [table EXCEPT ![key] =
                          [value |-> @.value,
                           accessed_at |-> entry.accessed_at,
                           access_count |-> AddU64(@.access_count, entry.access_count)]],
          victim |-> EmptyString, evicted |-> FALSE]
    ELSE IF Cardinality(DOMAIN table) = cap
         THEN LET selected == SelectVictim(m, table, order) IN
              IF ~selected.ok
              THEN [ok |-> FALSE, entries |-> table, victim |-> EmptyString, evicted |-> FALSE]
              ELSE [ok |-> TRUE,
                    entries |-> MapInsert(MapRemove(table, selected.key), key, entry),
                    victim |-> selected.key,
                    evicted |-> selected.key \in DOMAIN table]
         ELSE [ok |-> TRUE, entries |-> MapInsert(table, key, entry),
               victim |-> EmptyString, evicted |-> FALSE]

\* mutant: the new entry is inserted although select_victim failed
CacheSetInsertsOnError(table, cap, m, key, entry, order) ==
    IF key \in DOMAIN table
    THEN [ok |-> TRUE,
          entries |-> [table EXCEPT ![key] =
                          [value |-> entry.value,
                           accessed_at |-> entry.accessed_at,
                           access_count |-> AddU64(@.access_count, entry.access_count)]],
          victim |-> EmptyString, evicted |-> FALSE]
    ELSE IF Cardinality(DOMAIN table) = cap
         THEN LET selected == SelectVictim(m, table, order) IN
              IF ~selected.ok
              THEN [ok |-> FALSE, entries |-> MapInsert(table, key, entry),
                    victim |-> EmptyString, evicted |-> FALSE]
              ELSE [ok |-> TRUE,
                    entries |-> MapInsert(MapRemove(table, selected.key), key, entry),
                    victim |-> selected.key,
                    evicted |-> selected.key \in DOMAIN table]
         ELSE [ok |-> TRUE, entries |-> MapInsert(table, key, entry),
               victim |-> EmptyString, evicted |-> FALSE]

\* Cache::set; `order` is the iteration order select_victim meets.
\* Returns the result, the new table and the victim that was asked for.
CacheSet(table, cap, m, key, entry, order) ==
    IF key \in DOMAIN table
    THEN [ok |-> TRUE,
          entries |-> [table EXCEPT ![key] =
                          [value |-> entry.value,
                           accessed_at |-> entry.accessed_at,
                           access_count |-> AddU64(@.access_count, entry.access_count)]],
          victim |-> EmptyString, evicted |-> FALSE]
    ELSE IF Cardinality(DOMAIN table) = cap
         THEN LET selected == SelectVictim(m, table, order) IN
              IF ~selected.ok
              THEN [ok |-> FALSE, entries |-> table, victim |-> EmptyString, evicted |-> FALSE]
              ELSE [ok |-> TRUE,
                    entries |-> MapInsert(MapRemove(table, selected.key), key, entry),
                    victim |-> selected.key,
                    evicted |-> selected.key \in DOMAIN table]
         ELSE [ok |-> TRUE, entries |-> MapInsert(table, key, entry),
               victim |-> EmptyString, evicted |-> FALSE]

\* mutant: a get refreshes accessed_at but does not count the access
CacheGetWithoutCount(table, key, t) ==
    IF key \in DOMAIN table
    THEN LET entry == [table[key] EXCEPT !.accessed_at = t] IN
         [some |-> TRUE, value |-> entry.value, entries |-> [table EXCEPT ![key] = entry]]
    ELSE [some |-> FALSE, value |-> EmptyString, entries |-> table]

\* Cache::get at clock reading t: Some(entry) with the table updated, or None
CacheGet(table, key, t) ==
    IF key \in DOMAIN table
    THEN LET entry == [table[key] EXCEPT !.access_count = AddU64(@, 1), !.accessed_at = t] IN
         [some |-> TRUE, value |-> entry.value, entries |-> [table EXCEPT ![key] = entry]]
    ELSE [some |-> FALSE, value |-> EmptyString, entries |-> table]

\* Cache::remove
CacheRemove(table, key) ==
    IF key \in DOMAIN table
    THEN [removed |-> TRUE, entries |-> MapRemove(table, key)]
    ELSE [removed |-> FALSE, entries |-> table]

NoCall == [op |-> "none"]

NoValues == [k \in {} |-> "x"]
NoFrame == [op |-> "NONE", key |-> EmptyString, value |-> EmptyString]

\* the server part of the state when no server runs (harness specifications)
ServerOff ==
    /\ storage = NoValues
    /\ edition = 2021
    /\ version = [major |-> 1, minor |-> 0, patch |-> 0]
    /\ cacheLock = NoConn
    /\ storageWriter = NoConn
    /\ storageReaders = {}
    /\ pc = [c \in Conns |-> "unused"]
    /\ req = [c \in Conns |-> NoFrame]
    /\ out = [c \in Conns |-> <<>>]
    /\ nreq = 0
    /\ acked = [k \in Keys |-> EmptyString]
    /\ expect = [c \in Conns |-> EmptyString]

(***************************************************************************)
(* SpecPolicy: select_victim on an arbitrary non-empty or empty table.     *)
(***************************************************************************)
\* values of accessed_at and access_count: both ends of the u64 range
SampleU64 == {0, 1, U64_MAX - 1, U64_MAX}
PolicyKeys == {"a", "b"}
PolicyEntries == [value : {"x"}, accessed_at : SampleU64, access_count : SampleU64]
PolicyTables == UNION {[S -> PolicyEntries] : S \in SUBSET PolicyKeys}

InitPolicy ==
    /\ entries \in PolicyTables
    /\ model \in Models
    /\ capacity = Cardinality(DOMAIN entries)
    /\ now = 0
    /\ call = NoCall
    /\ ServerOff

ApplySelectVictim ==
    /\ call.op = "none"
    /\ \E order \in Orders(DOMAIN entries) :
          call' = [op |-> "select_victim", result |-> SelectVictim(model, entries, order)]
    /\ UNCHANGED <<entries, capacity, model, now>>
    /\ UNCHANGED serverVars

NextPolicy == ApplySelectVictim

SpecPolicy == InitPolicy /\ [][NextPolicy]_vars

(***************************************************************************)
(* C3: for every non-empty entry table, whatever the accessed_at and       *)
(* access_count of its entries (u64::MAX included), select_victim of LRU   *)
(* and of LFU returns a key that is present in the table.                  *)
(***************************************************************************)
C3_SelectVictimReturnsPresentKey ==
    (call.op = "select_victim" /\ DOMAIN entries # {})
        => (call.result.ok /\ call.result.key \in DOMAIN entries)

\* k is the only entry of the table with the least accessed_at
UniqueMinAccessedAt(table, k) ==
    /\ k \in DOMAIN table
    /\ \A j \in DOMAIN table \ {k} : table[k].accessed_at < table[j].accessed_at

\* k is the only entry of the table with the least access_count
UniqueMinAccessCount(table, k) ==
    /\ k \in DOMAIN table
    /\ \A j \in DOMAIN table \ {k} : table[k].access_count < table[j].access_count

(***************************************************************************)
(* C4: when exactly one entry of a non-empty table has the minimum         *)
(* accessed_at, LRU select_victim returns its key; when exactly one entry  *)
(* has the minimum access_count, LFU select_victim returns its key.        *)
(***************************************************************************)
C4_UniqueMinimumIsVictim ==
    call.op = "select_victim" =>
        \A k \in DOMAIN entries :
            /\ (model = "LRU" /\ UniqueMinAccessedAt(entries, k))
                  => (call.result.ok /\ call.result.key = k)
            /\ (model = "LFU" /\ UniqueMinAccessCount(entries, k))
                  => (call.result.ok /\ call.result.key = k)

(***************************************************************************)
(* SpecCache: any sequence of set, get and remove calls on one Cache.      *)
(* Entries are built by Entry::new, as every caller of Cache::set does;    *)
(* the clock never goes back.                                              *)
(***************************************************************************)
InitCache ==
    /\ entries = NoEntries
    /\ capacity \in 1..MaxCapacity
    /\ model \in Models
    /\ now = 0
    /\ call = NoCall
    /\ ServerOff

\* cache.set(key, Entry::new(value)?) with the clock at t
CallSet ==
    \E key \in Keys, value \in Values, t \in now..MaxTime :
      \E order \in Scans(entries, capacity, model, key) :
        LET r == CacheSet(entries, capacity, model, key, EntryNew(value, t), order) IN
        /\ key \in DOMAIN entries => entries[key].access_count < MaxCount
        /\ entries' = r.entries
        /\ now' = t
        /\ call' = [op |-> "set", key |-> key, entry |-> EntryNew(value, t),
                    hit |-> key \in DOMAIN entries, ok |-> r.ok,
                    victim |-> r.victim, evicted |-> r.evicted]
        /\ UNCHANGED <<capacity, model>>
        /\ UNCHANGED serverVars

\* cache.get(key) with the clock at t
CallGet ==
    \E key \in Keys, t \in now..MaxTime :
        LET r == CacheGet(entries, key, t) IN
        /\ key \in DOMAIN entries => entries[key].access_count < MaxCount
        /\ entries' = r.entries
        /\ now' = IF r.some THEN t ELSE now
        /\ call' = [op |-> "get", key |-> key, some |-> r.some, value |-> r.value]
        /\ UNCHANGED <<capacity, model>>
        /\ UNCHANGED serverVars

\* cache.remove(key)
CallRemove ==
    \E key \in Keys :
        LET r == CacheRemove(entries, key) IN
        /\ entries' = r.entries
        /\ call' = [op |-> "remove", key |-> key, removed |-> r.removed]
        /\ UNCHANGED <<capacity, model, now>>
        /\ UNCHANGED serverVars

NextCache == CallSet \/ CallGet \/ CallRemove

SpecCache == InitCache /\ [][NextCache]_vars

C5_SetExistingAccumulates ==
    [][(call'.op = "set" /\ call'.key \in DOMAIN entries)
        => /\ call'.ok
           /\ DOMAIN entries' = DOMAIN entries
           /\ entries'[call'.key].value = call'.entry.value
           /\ entries'[call'.key].accessed_at = call'.entry.accessed_at
           /\ entries'[call'.key].access_count
                 = entries[call'.key].access_count + call'.entry.access_count
           /\ \A k \in DOMAIN entries \ {call'.key} : entries'[k] = entries[k]]_vars

\* a set has just overwritten an entry of a full cache with another value
C5_Witness ==
    /\ call.op = "set" /\ call.hit
    /\ Cardinality(DOMAIN entries) = capacity
    /\ entries[call.key].access_count >= 2
    /\ entries[call.key].value = call.entry.value

(***************************************************************************)
(* C6: a get on a present key increases its access_count by exactly 1,     *)
(* sets its accessed_at to a value not smaller than before and returns its *)
(* value; a get on an absent key is a miss; either way the keys of the     *)
(* cache and every other entry are unchanged.                              *)
(***************************************************************************)
C6_GetTouchesOnlyItsEntry ==
    [][call'.op = "get"
        => /\ DOMAIN entries' = DOMAIN entries
           /\ \A k \in DOMAIN entries \ {call'.key} : entries'[k] = entries[k]
           /\ IF call'.key \in DOMAIN entries
              THEN /\ call'.some
                   /\ call'.value = entries[call'.key].value
                   /\ entries'[call'.key].value = entries[call'.key].value
                   /\ entries'[call'.key].access_count = entries[call'.key].access_count + 1
                   /\ entries'[call'.key].accessed_at >= entries[call'.key].accessed_at
              ELSE ~call'.some /\ entries' = entries]_vars

\* a get has just hit an entry while another entry is cached
C6_Witness ==
    /\ call.op = "get" /\ call.some
    /\ entries[call.key].access_count >= 2
    /\ Cardinality(DOMAIN entries) = 2

(***************************************************************************)
(* Wire protocol (protocol.rs)                                             *)
(***************************************************************************)
\* frames the server sends
Ready(v) == [op |-> "READY", version |-> v]
Okay == [op |-> "OK"]
ValueFrame(value) == [op |-> "VALUE", value |-> value]
\* send_error(stream, double_word, message)
SendError(message) == [op |-> "ERROR", message |-> message]
Quit == [op |-> "QUIT"]

\* Version: three u8
VersionParts == 0..MaxVersionPart
Versions == [major : VersionParts, minor : VersionParts, patch : VersionParts]

\* u8::cmp
Cmp(a, b) == IF a < b THEN "Less" ELSE IF a = b THEN "Equal" ELSE "Greater"

\* mutant: the comparison stops at the major number
VersionPartialCmpMajorOnly(self, other) == Cmp(self.major, other.major)

\* <Version as PartialOrd>::partial_cmp
VersionPartialCmp(self, other) ==
    IF Cmp(self.major, other.major) # "Equal" THEN Cmp(self.major, other.major)
    ELSE IF Cmp(self.minor, other.minor) # "Equal" THEN Cmp(self.minor, other.minor)
    ELSE Cmp(self.patch, other.patch)

\* what the four bytes read at the handshake can be: HELLO with any version,
\* another opcode with any three bytes, or the end / a timeout of the stream
HandshakeFrames ==
    [op : {"HELLO", "NOT_HELLO"}, version : Versions]
        \cup {[op |-> "EOF"], [op |-> "TIMEOUT"]}

\* what a read in the request loop can find: an opcode and, for SET, DEL and
\* GET, the strings read_string takes after it; an empty string stands for a
\* length of 0
RequestFrames ==
    [op : {"SET"}, key : Keys \cup {EmptyString}, value : Values \cup {EmptyString}]
        \cup [op : {"DEL", "GET"}, key : Keys \cup {EmptyString}, value : {EmptyString}]
        \cup [op : {"NOP", "QUIT", "INVALID", "EOF", "TIMEOUT"},
              key : {EmptyString}, value : {EmptyString}]

\* read_string fails with "length must be greater than 0" while reading the frame
ZeroLength(frame) ==
    \/ frame.op \in {"SET", "DEL", "GET"} /\ frame.key = EmptyString
    \/ frame.op = "SET" /\ frame.value = EmptyString

(***************************************************************************)
(* Storage: the storage engine (storage.rs) is not part of the sources;    *)
(* it is modelled from its contract: write, read and delete on a map.      *)
(***************************************************************************)
StorageWrite(table, key, value) ==
    [k \in DOMAIN table \cup {key} |-> IF k = key THEN value ELSE table[k]]

StorageRead(table, key) ==
    IF key \in DOMAIN table THEN [some |-> TRUE, value |-> table[key]]
    ELSE [some |-> FALSE, value |-> EmptyString]

StorageDelete(table, key) ==
    [existed |-> key \in DOMAIN table, storage |-> [k \in DOMAIN table \ {key} |-> table[k]]]

\* the failures a run lets happen: none, those of the storage engine, those
\* of the accept loop
NoFaults == {}
StorageFaults == {"StorageFull", "IoError"}
AcceptFaults == {"configure", "execute"}

\* what Storage::write can return besides ok: the io::Error kinds StorageFull
\* and any other; a failed write leaves the stored table as it was
StorageWriteOutcomes(faults) == {"ok"} \cup (faults \cap {"StorageFull", "IoError"})

\* what Storage::read and Storage::delete can return besides their value
StorageAccessOutcomes(faults) == {"ok"} \cup (faults \cap {"IoError"})

(***************************************************************************)
(* serve (protocol.rs): one worker per accepted connection                 *)
(***************************************************************************)
\* the message of the handshake closure's error, by the frame that was read
HandshakeError(frame, server) ==
    IF frame.op = "EOF" THEN "failed to fill whole buffer"
    ELSE IF frame.op = "TIMEOUT" THEN "Resource temporarily unavailable"
    ELSE IF frame.op # "HELLO" THEN "handshake must start with HELLO operation"
    ELSE IF VersionPartialCmp(frame.version, server) = "Greater"
         THEN "client version must be less than or equal to the server version"
         ELSE ""

\* how a turn of the accept loop can end: the worker is started, or one of
\* set_read_timeout / set_nodelay ("configure") or thread_pool.execute fails
AcceptOutcomes(faults) == {"ok"} \cup (faults \cap {"configure", "execute"})

\* a turn of the accept loop: listener.incoming() yields a stream, the
\* socket is configured and thread_pool.execute starts its worker, which
\* first writes READY with the server version. A failure of one of these
\* calls is returned by `?` out of serve, and main exits the process with
\* all its workers.
Accept(c, faults) ==
    /\ pc[c] = "idle"
    /\ \E outcome \in AcceptOutcomes(faults) :
          IF outcome = "ok"
          THEN /\ pc' = [pc EXCEPT ![c] = "handshake"]
               /\ out' = [out EXCEPT ![c] = <<Ready(version)>>]
          ELSE /\ pc' = [x \in Conns |-> "exited"]
               /\ out' = out
    /\ UNCHANGED <<cacheVars, call, storage, edition, version, cacheLock,
                   storageWriter, storageReaders, req, nreq, acked, expect>>

\* the handshake closure after READY: read four bytes, check them, answer
Handshake(c, hellos) ==
    /\ pc[c] = "handshake"
    /\ \E frame \in hellos :
          LET error == HandshakeError(frame, version) IN
          /\ req' = [req EXCEPT ![c] = frame]
          /\ IF error = ""
             THEN /\ out' = [out EXCEPT ![c] = <<Okay>>]
                  /\ pc' = [pc EXCEPT ![c] = "loop"]
             ELSE /\ out' = [out EXCEPT ![c] = <<SendError(error)>>]
                  /\ pc' = [pc EXCEPT ![c] = "closed"]
    /\ UNCHANGED <<cacheVars, call, storage, edition, version, cacheLock,
                   storageWriter, storageReaders, nreq, acked, expect>>

\* where the worker goes after it read a well-formed SET, DEL or GET
Dispatch(op) ==
    IF op = "SET" THEN "set_lock_cache"
    ELSE IF op = "DEL" THEN "del_lock_cache"
    ELSE "get_lock_cache"

\* mutant: a non-I/O error ends the connection as an I/O error does
ReplyErrorAndContinueBreaks(c, message) ==
    /\ out' = [out EXCEPT ![c] = Append(Append(@, SendError(message)), Quit)]
    /\ pc' = [pc EXCEPT ![c] = "closed"]

\* the non-I/O branch of the error dispatch: send ERROR and loop on
ReplyErrorAndContinue(c, message) ==
    /\ out' = [out EXCEPT ![c] = Append(@, SendError(message))]
    /\ pc' = [pc EXCEPT ![c] = "loop"]

\* the message send_error gets for an io::Error of the given kind
IoErrorMessage(kind) ==
    CASE kind = "StorageFull" -> "storage must have free space"
      [] kind = "TimedOut" -> "packet must be sent in time"
      [] OTHER -> "input/output error"

\* the I/O branch of the error dispatch: send ERROR, write QUIT, break
ReplyErrorAndQuit(c, message) ==
    /\ out' = [out EXCEPT ![c] = Append(Append(@, SendError(message)), Quit)]
    /\ pc' = [pc EXCEPT ![c] = "closed"]

\* where the worker is while it handles a SET or a DEL
WriteInFlight == {"set_lock_cache", "set_cache", "set_lock_storage", "set_storage",
                  "del_lock_cache", "del_cache", "del_lock_storage", "del_storage"}

\* the worker of connection x is handling a SET or a DEL of key
Writes(x, key) == pc[x] \in WriteInFlight /\ req[x].key = key

\* what acked holds for a key whose SETs and DELs overlapped: their order is
\* open, no value is the settled one
Unsettled == "?"

\* mutant: the worker says QUIT before it leaves
ClientGoneWithQuit(c) ==
    /\ out' = [out EXCEPT ![c] = <<Quit>>]
    /\ pc' = [pc EXCEPT ![c] = "closed"]

\* the two silent ways out of the loop: UnexpectedEof on a read and the
\* empty message of QUIT; nothing is sent and the stream is dropped
ClientGone(c) ==
    /\ out' = [out EXCEPT ![c] = <<>>]
    /\ pc' = [pc EXCEPT ![c] = "closed"]

\* one turn of the request loop up to the first lock: read the opcode and
\* the strings of the frame, answer at once what needs no cache or storage
ReadRequest(c, frames) ==
    /\ pc[c] = "loop"
    /\ nreq < MaxRequests
    /\ nreq' = nreq + 1
    /\ \E frame \in frames :
          /\ req' = [req EXCEPT ![c] = frame]
          /\ acked' = IF frame.op \in {"SET", "DEL"} /\ ~ZeroLength(frame)
                      THEN [acked EXCEPT ![frame.key] =
                               IF \E x \in Conns \ {c} : Writes(x, frame.key)
                               THEN Unsettled ELSE EmptyString]
                      ELSE acked
          /\ expect' = [x \in Conns |->
                          IF x = c
                          THEN IF frame.op = "GET" /\ ~ZeroLength(frame)
                                  /\ acked[frame.key] # Unsettled
                               THEN acked[frame.key] ELSE EmptyString
                          ELSE IF frame.op \in {"SET", "DEL"} /\ req[x].op = "GET"
                                  /\ req[x].key = frame.key
                               THEN EmptyString ELSE expect[x]]
          /\ CASE frame.op = "EOF" -> ClientGone(c)
               [] frame.op = "QUIT" -> ClientGone(c)
               [] frame.op = "TIMEOUT" ->
                    /\ out' = [out EXCEPT ![c] = <<SendError(IoErrorMessage("TimedOut")), Quit>>]
                    /\ pc' = [pc EXCEPT ![c] = "closed"]
               [] frame.op = "NOP" ->
                    out' = [out EXCEPT ![c] = <<Okay>>] /\ pc' = pc
               [] frame.op = "INVALID" ->
                    /\ out' = [out EXCEPT ![c] = <<SendError("operation must be valid")>>]
                    /\ pc' = pc
               [] frame.op \in {"SET", "DEL", "GET"} /\ ZeroLength(frame) ->
                    /\ out' = [out EXCEPT ![c] = <<SendError("length must be greater than 0")>>]
                    /\ pc' = pc
               [] OTHER ->
                    /\ out' = [out EXCEPT ![c] = <<>>]
                    /\ pc' = [pc EXCEPT ![c] = Dispatch(frame.op)]
    /\ UNCHANGED <<cacheVars, call, storage, edition, version, cacheLock,
                   storageWriter, storageReaders>>

\* cache.lock() returns: the Mutex<Cache> is free
AcquireCache(c) ==
    /\ pc[c] \in {"set_lock_cache", "del_lock_cache", "get_lock_cache", "promote_lock_cache"}
    /\ cacheLock = NoConn
    /\ cacheLock' = c
    /\ pc' = [pc EXCEPT ![c] = CASE pc[c] = "set_lock_cache" -> "set_cache"
                                 [] pc[c] = "del_lock_cache" -> "del_cache"
                                 [] pc[c] = "get_lock_cache" -> "get_cache"
                                 [] OTHER -> "promote"]
    /\ UNCHANGED <<cacheVars, call, storage, edition, version, storageWriter,
                   storageReaders, req, out, nreq, acked, expect>>

\* storage.write() returns: no reader and no writer holds the RwLock<Storage>
AcquireStorageWrite(c) ==
    /\ pc[c] \in {"set_lock_storage", "del_lock_storage"}
    /\ storageWriter = NoConn /\ storageReaders = {}
    /\ storageWriter' = c
    /\ pc' = [pc EXCEPT ![c] = IF pc[c] = "set_lock_storage" THEN "set_storage" ELSE "del_storage"]
    /\ UNCHANGED <<cacheVars, call, storage, edition, version, cacheLock,
                   storageReaders, req, out, nreq, acked, expect>>

\* storage.read() returns: no writer holds the RwLock<Storage>
AcquireStorageRead(c) ==
    /\ pc[c] = "get_lock_storage"
    /\ storageWriter = NoConn
    /\ storageReaders' = storageReaders \cup {c}
    /\ pc' = [pc EXCEPT ![c] = "get_storage"]
    /\ UNCHANGED <<cacheVars, call, storage, edition, version, cacheLock,
                   storageWriter, req, out, nreq, acked, expect>>

\* SET: .set(&key, Entry::new(&value)?)? under the cache lock, which the end
\* of the statement releases
SetCache(c) ==
    /\ pc[c] = "set_cache"
    /\ \E t \in now..MaxTime, order \in Scans(entries, capacity, model, req[c].key) :
          LET r == CacheSet(entries, capacity, model, req[c].key, EntryNew(req[c].value, t), order) IN
          /\ now' = t
          /\ entries' = r.entries
          /\ IF r.ok
             THEN pc' = [pc EXCEPT ![c] = "set_lock_storage"] /\ out' = out
             ELSE ReplyErrorAndContinue(c, SelectVictimErrorMessage(entries))
    /\ cacheLock' = NoConn
    /\ UNCHANGED <<capacity, model, call, storage, edition, version,
                   storageWriter, storageReaders, req, nreq, acked, expect>>

\* mutant: OK is sent whatever the storage write returned
SetStorageAlwaysOk(c, faults) ==
    /\ pc[c] = "set_storage"
    /\ \E outcome \in StorageWriteOutcomes(faults) :
          /\ storage' = IF outcome = "ok"
                        THEN StorageWrite(storage, req[c].key, req[c].value)
                        ELSE storage
          /\ out' = [out EXCEPT ![c] = Append(@, Okay)]
          /\ acked' = [acked EXCEPT ![req[c].key] = req[c].value]
          /\ pc' = [pc EXCEPT ![c] = "loop"]
    /\ storageWriter' = NoConn
    /\ UNCHANGED <<cacheVars, call, edition, version, cacheLock, storageReaders, req, nreq, expect>>

\* SET: .write(&key, value)? under the storage write lock, then OK
SetStorage(c, faults) ==
    /\ pc[c] = "set_storage"
    /\ \E outcome \in StorageWriteOutcomes(faults) :
          IF outcome = "ok"
          THEN /\ storage' = StorageWrite(storage, req[c].key, req[c].value)
               /\ out' = [out EXCEPT ![c] = Append(@, Okay)]
               /\ acked' = [acked EXCEPT ![req[c].key] =
                                IF @ = Unsettled THEN @ ELSE req[c].value]
               /\ pc' = [pc EXCEPT ![c] = "loop"]
          ELSE /\ storage' = storage
               /\ acked' = acked
               /\ ReplyErrorAndQuit(c, IoErrorMessage(outcome))
    /\ storageWriter' = NoConn
    /\ UNCHANGED <<cacheVars, call, edition, version, cacheLock, storageReaders, req, nreq, expect>>

\* DEL: .remove(&key) under the cache lock
DelCache(c) ==
    /\ pc[c] = "del_cache"
    /\ entries' = CacheRemove(entries, req[c].key).entries
    /\ cacheLock' = NoConn
    /\ pc' = [pc EXCEPT ![c] = "del_lock_storage"]
    /\ UNCHANGED <<capacity, model, now, call, storage, edition, version,
                   storageWriter, storageReaders, req, out, nreq, acked, expect>>

\* DEL: .delete(&key)? under the storage write lock, then OK or "key must exist"
DelStorage(c, faults) ==
    /\ pc[c] = "del_storage"
    /\ \E outcome \in StorageAccessOutcomes(faults) :
          LET r == StorageDelete(storage, req[c].key) IN
          IF outcome = "ok"
          THEN /\ storage' = r.storage
               /\ IF r.existed
                  THEN out' = [out EXCEPT ![c] = Append(@, Okay)] /\ pc' = [pc EXCEPT ![c] = "loop"]
                  ELSE ReplyErrorAndContinue(c, "key must exist")
          ELSE /\ storage' = storage
               /\ ReplyErrorAndQuit(c, IoErrorMessage(outcome))
    /\ storageWriter' = NoConn
    /\ UNCHANGED <<cacheVars, call, edition, version, cacheLock, storageReaders,
                   req, nreq, acked, expect>>

\* GET: .get(&key)? under the cache lock. On a hit the value is cloned and
\* VALUE is sent; on a miss the worker goes on to the storage, still holding
\* the cache lock in the editions where the guard lives through `else`
GetCache(c) ==
    /\ pc[c] = "get_cache"
    /\ \E t \in now..MaxTime :
          LET r == CacheGet(entries, req[c].key, t) IN
          /\ entries' = r.entries
          /\ IF r.some
             THEN /\ now' = t
                  /\ cacheLock' = NoConn
                  /\ req' = [req EXCEPT ![c].value = r.value]
                  /\ out' = [out EXCEPT ![c] = Append(@, ValueFrame(r.value))]
                  /\ pc' = [pc EXCEPT ![c] = "loop"]
             ELSE /\ now' = now
                  /\ cacheLock' = IF edition = 2021 THEN c ELSE NoConn
                  /\ req' = req
                  /\ out' = out
                  /\ pc' = [pc EXCEPT ![c] = "get_lock_storage"]
    /\ UNCHANGED <<capacity, model, call, storage, edition, version,
                   storageWriter, storageReaders, nreq, acked, expect>>

\* mutant: the storage read guard outlives the `let` statement
GetStorageKeepsReadLock(c, faults) ==
    /\ pc[c] = "get_storage"
    /\ LET r == StorageRead(storage, req[c].key) IN
          IF r.some
          THEN /\ req' = [req EXCEPT ![c].value = r.value]
               /\ out' = out
               /\ pc' = [pc EXCEPT ![c] = "promote_lock_cache"]
          ELSE /\ req' = req
               /\ ReplyErrorAndContinue(c, "key must exist")
    /\ cacheLock' = IF cacheLock = c THEN NoConn ELSE cacheLock
    /\ UNCHANGED <<cacheVars, call, storage, edition, version, storageWriter,
                   storageReaders, nreq, acked, expect>>

\* GET after a cache miss: .read(&key)? under the storage read lock; the end
\* of the `let` statement releases every lock the worker holds
GetStorage(c, faults) ==
    /\ pc[c] = "get_storage"
    /\ \E outcome \in StorageAccessOutcomes(faults) :
          LET r == StorageRead(storage, req[c].key) IN
          IF outcome # "ok"
          THEN /\ req' = req
               /\ ReplyErrorAndQuit(c, IoErrorMessage(outcome))
          ELSE IF r.some
          THEN /\ req' = [req EXCEPT ![c].value = r.value]
               /\ out' = out
               /\ pc' = [pc EXCEPT ![c] = "promote_lock_cache"]
          ELSE /\ req' = req
               /\ ReplyErrorAndContinue(c, "key must exist")
    /\ storageReaders' = storageReaders \ {c}
    /\ cacheLock' = IF cacheLock = c THEN NoConn ELSE cacheLock
    /\ UNCHANGED <<cacheVars, call, storage, edition, version, storageWriter, nreq, acked, expect>>

\* GET, promotion: .set(&key, Entry::new(&value)?)? under the cache lock, then VALUE
Promote(c) ==
    /\ pc[c] = "promote"
    /\ \E t \in now..MaxTime, order \in Scans(entries, capacity, model, req[c].key) :
          LET r == CacheSet(entries, capacity, model, req[c].key, EntryNew(req[c].value, t), order) IN
          /\ now' = t
          /\ entries' = r.entries
          /\ IF r.ok
             THEN /\ out' = [out EXCEPT ![c] = Append(@, ValueFrame(req[c].value))]
                  /\ pc' = [pc EXCEPT ![c] = "loop"]
             ELSE ReplyErrorAndContinue(c, SelectVictimErrorMessage(entries))
    /\ cacheLock' = NoConn
    /\ UNCHANGED <<capacity, model, call, storage, edition, version,
                   storageWriter, storageReaders, req, nreq, acked, expect>>

\* a step of the worker of connection c, whose client sends a first frame
\* among `hellos` and then request frames among `frames`, in a run where the
\* failures `faults` can happen
Worker(c, hellos, frames, faults) ==
    \/ Accept(c, faults)
    \/ Handshake(c, hellos)
    \/ ReadRequest(c, frames)
    \/ AcquireCache(c)
    \/ AcquireStorageWrite(c)
    \/ AcquireStorageRead(c)
    \/ SetCache(c)
    \/ SetStorage(c, faults)
    \/ DelCache(c)
    \/ DelStorage(c, faults)
    \/ GetCache(c)
    \/ GetStorage(c, faults)
    \/ Promote(c)

\* the frames of clients that speak the protocol on two keys, one of them
\* with a version the server does not accept
PlainHellos == [op : {"HELLO"}, version : {[major |-> 1, minor |-> 0, patch |-> 0],
                                              [major |-> 2, minor |-> 0, patch |-> 0]}]
PlainFrames ==
    [op : {"SET"}, key : {"a", "b"}, value : Values]
        \cup [op : {"DEL", "GET"}, key : {"a", "b"}, value : {EmptyString}]
        \cup [op : {"QUIT"}, key : {EmptyString}, value : {EmptyString}]

\* several connections served at once
Next == \E c \in Conns : Worker(c, PlainHellos, PlainFrames, NoFaults)

\* one connection whose client may send anything
NextSingle == Worker("c1", HandshakeFrames, RequestFrames, NoFaults)

\* what the storage directory holds when the server starts: nothing, or
\* what an earlier run left there
StoredTables == {NoValues, [k \in {"a"} |-> "x"]}

\* the versions the server is run as
ServerVersions == {[major |-> 1, minor |-> 0, patch |-> 0], [major |-> 1, minor |-> 1, patch |-> 1]}

\* the server after construction, with the connections `clients` to come,
\* its version among `versions`, its policy among `models`
InitServerWith(clients, versions, models) ==
    /\ entries = NoEntries
    /\ capacity \in 1..MaxCapacity
    /\ model \in models
    /\ now = 0
    /\ call = NoCall
    /\ storage \in StoredTables
    /\ edition \in Editions
    /\ version \in versions
    /\ cacheLock = NoConn
    /\ storageWriter = NoConn
    /\ storageReaders = {}
    /\ pc = [c \in Conns |-> IF c \in clients THEN "idle" ELSE "unused"]
    /\ req = [c \in Conns |-> NoFrame]
    /\ out = [c \in Conns |-> <<>>]
    /\ nreq = 0
    /\ acked = [k \in Keys |-> EmptyString]
    /\ expect = [c \in Conns |-> EmptyString]

\* the server run with one of the two counting policies
InitServer(clients, versions) == InitServerWith(clients, versions, Models)

Init == InitServer(Conns, {[major |-> 1, minor |-> 0, patch |-> 0]})

Spec == Init /\ [][Next]_vars

\* a single client connection
InitSingle == InitServer({"c1"}, ServerVersions)

\* a single connection to a server of any version, for the handshake
InitHandshake ==
    /\ InitServer({"c1"}, Versions)
    /\ capacity = 1 /\ model = "LRU" /\ edition = 2021 /\ storage = NoValues

SpecHandshake == InitHandshake /\ [][NextSingle]_vars


SpecSingle == InitSingle /\ [][NextSingle]_vars

\* a single connection to a server whose storage engine can fail
NextFaulty == Worker("c1", PlainHellos, RequestFrames, StorageFaults)

SpecFaulty == InitSingle /\ [][NextFaulty]_vars

\* a connection whose request loop has just answered frame-for-frame
Answered(c) == pc[c] = "loop"

LexLess(a, b) ==
    \/ a.major < b.major
    \/ a.major = b.major /\ a.minor < b.minor
    \/ a.major = b.major /\ a.minor = b.minor /\ a.patch < b.patch

(***************************************************************************)
(* C8: when the client's HELLO carries a version strictly greater than the *)
(* server version, the server sends ERROR, then QUIT, then closes the      *)
(* connection, and sends nothing else.                                     *)
(***************************************************************************)
C8_TooNewVersionErrorQuitClose ==
    \A c \in Conns :
        (req[c].op = "HELLO" /\ LexLess(version, req[c].version) /\ pc[c] # "handshake")
            => /\ pc[c] = "closed"
               /\ Len(out[c]) = 2
               /\ out[c][1].op = "ERROR"
               /\ out[c][2].op = "QUIT"

\* the states of a worker before its handshake has succeeded or failed
BeforeLoop == {"unused", "idle", "handshake"}

(***************************************************************************)
(* C9: a connection reaches the request loop if and only if its first      *)
(* frame is HELLO with a version lower than or equal to the server version *)
(* in the lexicographic order on (major, minor, patch); before that, no    *)
(* request is read or dispatched, no lock is taken and neither the cache   *)
(* nor the storage changes.                                                *)
(***************************************************************************)
C9_LoopOnlyAfterAcceptedHello ==
    [][\A c \in {"c1"} :
        /\ (pc[c] = "handshake" /\ pc'[c] # "handshake")
              => /\ pc'[c] \in {"loop", "closed"}
                 /\ pc'[c] = "loop"
                       <=> (req'[c].op = "HELLO" /\ ~LexLess(version, req'[c].version))
        /\ pc[c] \in BeforeLoop
              => /\ pc'[c] \in BeforeLoop \cup {"loop", "closed"}
                 /\ nreq' = nreq
                 /\ UNCHANGED <<entries, now, storage, cacheLock, storageWriter, storageReaders>>
        /\ (pc'[c] = "loop" /\ pc[c] \in BeforeLoop) => pc[c] = "handshake"]_vars

\* a HELLO with a lower minor and a greater patch than the server's has
\* been accepted
C9_Witness ==
    \E c \in Conns :
        /\ pc[c] = "loop"
        /\ req[c].op = "HELLO"
        /\ req[c].version.major = version.major
        /\ req[c].version.minor < version.minor
        /\ req[c].version.patch > version.patch
        /\ out[c] = <<Okay>>

\* a request the grammar does not allow: an unknown opcode, or a key or
\* value of length 0
BadFrame(frame) == frame.op = "INVALID" \/ ZeroLength(frame)

(***************************************************************************)
(* C10: after a successful handshake, a request whose opcode is not one of *)
(* NOP, SET, DEL, GET, QUIT, or whose key length or value length is 0,     *)
(* makes the server send ERROR, then QUIT, then close the connection; no   *)
(* later byte of the connection is interpreted as a request.               *)
(***************************************************************************)
C10_BadFrameErrorQuitClose ==
    \A c \in Conns :
        BadFrame(req[c])
            => /\ pc[c] = "closed"
               /\ Len(out[c]) = 2
               /\ out[c][1].op = "ERROR"
               /\ out[c][2].op = "QUIT"

\* the reply of the non-I/O error dispatch to Err("key must exist")
KeyMustExist == SendError("key must exist")

(***************************************************************************)
(* C11: a GET of a key that is in neither the cache nor the storage, and a *)
(* DEL of a key that is not in the storage, are answered with exactly one  *)
(* ERROR frame "key must exist" and no QUIT; the connection stays in the   *)
(* request loop, where the next frame read is dispatched as any request.   *)
(***************************************************************************)
C11_KeyNotFoundKeepsConnection ==
    [][\A c \in Conns :
        /\ (/\ pc[c] = "get_storage" /\ pc'[c] # "get_storage"
            /\ req[c].key \notin DOMAIN entries
            /\ req[c].key \notin DOMAIN storage)
              => (out'[c] = <<KeyMustExist>> /\ pc'[c] = "loop")
        /\ (/\ pc[c] = "del_storage" /\ pc'[c] # "del_storage"
            /\ req[c].key \notin DOMAIN storage)
              => (out'[c] = <<KeyMustExist>> /\ pc'[c] = "loop")
        /\ (pc[c] = "loop" /\ out[c] = <<KeyMustExist>> /\ nreq' # nreq)
              => /\ (req'[c].op \in {"SET", "DEL", "GET"} /\ ~ZeroLength(req'[c]))
                       => (pc'[c] = Dispatch(req'[c].op) /\ out'[c] = <<>>)
                 /\ req'[c].op = "NOP" => (pc'[c] = "loop" /\ out'[c] = <<Okay>>)]_vars

\* a DEL of a key the storage does not hold has been answered and the
\* connection waits for its next request
C11_Witness ==
    \E c \in Conns :
        /\ pc[c] = "loop"
        /\ req[c].op = "DEL"
        /\ req[c].key \notin DOMAIN storage
        /\ out[c] = <<KeyMustExist>>
        /\ nreq < MaxRequests

(***************************************************************************)
(* C13: after a successful handshake, when the client sends QUIT or closes *)
(* its side (EOF where the server reads the next opcode), the worker       *)
(* leaves the request loop and closes the connection without sending any   *)
(* frame, and changes neither the cache nor the storage; nothing happens   *)
(* on the connection afterwards.                                           *)
(***************************************************************************)
C13_QuitOrEofClosesSilently ==
    [][\A c \in Conns :
        /\ (pc[c] = "loop" /\ nreq' # nreq /\ req'[c].op \in {"QUIT", "EOF"})
              => /\ pc'[c] = "closed"
                 /\ out'[c] = <<>>
                 /\ UNCHANGED <<entries, storage>>
        /\ pc[c] = "closed"
              => /\ pc'[c] = "closed"
                 /\ UNCHANGED <<out, entries, storage>>]_vars

\* the client closed its side after a request that filled the cache and
\* the storage: the connection is closed, nothing was sent
C13_Witness ==
    \E c \in Conns :
        /\ pc[c] = "closed"
        /\ req[c].op = "EOF"
        /\ out[c] = <<>>
        /\ DOMAIN entries # {}
        /\ DOMAIN storage # {}

\* the fixed message for an io::Error of kind StorageFull
StorageMustHaveFreeSpace == SendError(IoErrorMessage("StorageFull"))

(***************************************************************************)
(* C12: when the storage write of a SET fails because the backing store is *)
(* full, the server sends one ERROR frame with the fixed message and keeps *)
(* the connection: no QUIT follows and the worker is back in the request   *)
(* loop for the next request.                                              *)
(***************************************************************************)
C12_StorageFullKeepsConnection ==
    \A c \in Conns :
        (/\ req[c].op = "SET"
         /\ out[c] # <<>>
         /\ out[c][1] = StorageMustHaveFreeSpace)
            => (out[c] = <<StorageMustHaveFreeSpace>> /\ pc[c] = "loop")

\* where the worker is while it handles a SET
SetInFlight == {"set_lock_cache", "set_cache", "set_lock_storage", "set_storage"}

\* the frames of a reply hold OK
HasOkay(frames) == \E i \in 1..Len(frames) : frames[i] = Okay

(***************************************************************************)
(* C14: a SET is answered OK only after its storage write has completed    *)
(* successfully: no OK is sent while the SET is handled, and the step that *)
(* sends it is the one that stored the value. When the storage write       *)
(* fails, no OK is sent for that SET and the cache keeps the entry the SET *)
(* wrote.                                                                  *)
(***************************************************************************)
C14_OkOnlyAfterStorageWrite ==
    [][\A c \in Conns :
        pc[c] \in SetInFlight
          => /\ ~HasOkay(out[c])
             /\ HasOkay(out'[c])
                   => /\ pc[c] = "set_storage"
                      /\ req[c].key \in DOMAIN storage'
                      /\ storage'[req[c].key] = req[c].value
             /\ (pc[c] = "set_storage" /\ pc'[c] # "set_storage" /\ ~HasOkay(out'[c]))
                   => /\ storage' = storage
                      /\ entries' = entries
                      /\ req[c].key \in DOMAIN entries'
                      /\ entries'[req[c].key].value = req[c].value]_vars

\* the storage write of a SET has failed: no OK was sent, the key is in
\* the cache with the value of the SET and is not in the storage
C14_Witness ==
    \E c \in Conns :
        /\ pc[c] = "closed"
        /\ req[c].op = "SET"
        /\ out[c] # <<>> /\ out[c][1].op = "ERROR"
        /\ req[c].key \in DOMAIN entries
        /\ entries[req[c].key].value = req[c].value
        /\ req[c].key \notin DOMAIN storage

(***************************************************************************)
(* C15: with several connections and a storage that never fails, single    *)
(* operations are linearizable; in particular a GET of k that starts after *)
(* a SET of k was acknowledged, that SET overlapping no other SET or DEL   *)
(* of k and none having started since, is answered VALUE with the value of *)
(* that SET and never with an older one.                                   *)
(***************************************************************************)
C15_GetNeverOlderThanAcknowledgedSet ==
    \A c \in Conns :
        (pc[c] = "loop" /\ req[c].op = "GET" /\ expect[c] # EmptyString)
            => out[c] = <<ValueFrame(expect[c])>>

\* the worker of connection c holds the RwLock<Storage>, for reading or writing
HoldsStorage(c) == storageWriter = c \/ c \in storageReaders

OneKeyFrames ==
    [op : {"SET"}, key : {"a"}, value : Values]
        \cup [op : {"DEL", "GET"}, key : {"a"}, value : {EmptyString}]

\* the steps of a worker between the read of a request and its reply
InFlightStep(c) ==
    \/ AcquireCache(c)
    \/ AcquireStorageWrite(c)
    \/ AcquireStorageRead(c)
    \/ SetCache(c)
    \/ SetStorage(c, NoFaults)
    \/ DelCache(c)
    \/ DelStorage(c, NoFaults)
    \/ GetCache(c)
    \/ GetStorage(c, NoFaults)
    \/ Promote(c)

NextFair == \E c \in Conns : Worker(c, PlainHellos, OneKeyFrames, NoFaults)

\* with one key nothing is ever evicted: one capacity and one policy stand
\* for all
InitFair == Init /\ capacity = 1 /\ model = "LRU"

\* several connections under a fair scheduler: a worker thread that can
\* take its next step is not left waiting for ever. Clients are free to
\* send or not.
SpecFair == InitFair /\ [][NextFair]_vars /\ \A c \in Conns : WF_vars(InFlightStep(c))

\* where a worker waits for the Mutex<Cache>, for the RwLock<Storage>
WaitsCache == {"set_lock_cache", "del_lock_cache", "get_lock_cache", "promote_lock_cache"}
WaitsStorage == {"set_lock_storage", "del_lock_storage", "get_lock_storage"}

\* where a worker is when no request of its connection is being handled
AtRest == {"unused", "idle", "handshake", "loop", "closed", "exited"}

(***************************************************************************)
(* C17: no worker ever waits for the cache lock while it holds a storage   *)
(* lock, and with several connections issuing SET, DEL and GET under a     *)
(* fair scheduler there is no deadlock: every worker that waits for a lock *)
(* eventually holds it and every operation that was started eventually     *)
(* ends with its reply sent.                                               *)
(***************************************************************************)
C17_LockOrderAndProgress ==
    /\ [](\A c \in Conns : pc[c] \in WaitsCache => ~HoldsStorage(c))
    /\ \A c \in Conns : (pc[c] \in WaitsCache) ~> (cacheLock = c)
    /\ \A c \in Conns : (pc[c] \in WaitsStorage) ~> HoldsStorage(c)
    /\ \A c \in Conns : (pc[c] \notin AtRest) ~> (pc[c] \in AtRest /\ out[c] # <<>>)

\* a worker that kept the cache lock after a miss waits for the storage
\* reader lock while another worker holds the storage writer lock
C17_Witness ==
    \E c, d \in Conns :
        /\ c # d
        /\ pc[c] = "get_lock_storage"
        /\ cacheLock = c
        /\ storageWriter = d

\* several connections to a server whose accept loop can meet a failure of
\* set_read_timeout, set_nodelay or thread_pool.execute
NextAccept == \E c \in Conns : Worker(c, PlainHellos, OneKeyFrames, AcceptFaults)

SpecAccept == Init /\ [][NextAccept]_vars

(***************************************************************************)
(* C18: no error that concerns a single connection (a failure while        *)
(* configuring the accepted socket, while handing it to the worker pool,   *)
(* during the handshake or while serving a request) makes the accept loop  *)
(* of serve return or the process exit: the server goes on accepting and   *)
(* serving connections.                                                    *)
(***************************************************************************)
C18_ServerNeverExits ==
    \A c \in Conns : pc[c] # "exited"

\* a single connection to a server whose policy is the network
InitDqn == InitServerWith({"c1"}, {[major |-> 1, minor |-> 0, patch |-> 0]}, {"DQN"})

SpecDqn == InitDqn /\ [][NextSingle]_vars

(***************************************************************************)
(* C19: when set is called with an absent key on a full cache and          *)
(* select_victim returns an error, set returns that error and the cache is *)
(* unchanged: the new key is not inserted and no entry is removed or       *)
(* modified. At the server the SET then writes nothing to the storage and  *)
(* is answered ERROR, not OK.                                              *)
(***************************************************************************)
C19_FailedEvictionAbortsSet ==
    [][\A c \in Conns :
        (/\ pc[c] = "set_cache"
         /\ req[c].key \notin DOMAIN entries
         /\ Cardinality(DOMAIN entries) = capacity)
          => /\ \A run \in Scans(entries, capacity, model, req[c].key) :
                   ~SelectVictim(model, entries, run).ok
                     => LET r == CacheSet(entries, capacity, model, req[c].key,
                                          EntryNew(req[c].value, now), run) IN
                        ~r.ok /\ r.entries = entries
             /\ pc'[c] = "loop"
                   => /\ entries' = entries
                      /\ storage' = storage
                      /\ Len(out'[c]) = 1 /\ out'[c][1].op = "ERROR"
             /\ pc'[c] = "set_lock_storage"
                   => req[c].key \in DOMAIN entries']_vars

\* a SET of an absent key on a full cache has been answered ERROR: the key
\* is neither in the cache, which is still full, nor in the storage
C19_Witness ==
    \E c \in Conns :
        /\ pc[c] = "loop"
        /\ req[c].op = "SET" /\ ~ZeroLength(req[c])
        /\ Len(out[c]) = 1 /\ out[c][1].op = "ERROR"
        /\ req[c].key \notin DOMAIN entries
        /\ Cardinality(DOMAIN entries) = capacity
        /\ req[c].key \notin DOMAIN storage

(***************************************************************************)
(* C20: with several connections and a storage that never fails, whenever  *)
(* no request is in flight on any connection, every key in the cache is in *)
(* the storage with the same value.                                        *)
(***************************************************************************)
C20_CacheAgreesWithStorageAtRest ==
    (\A c \in Conns : pc[c] \in AtRest)
        => \A k \in DOMAIN entries :
              k \in DOMAIN storage /\ storage[k] = entries[k].value

=============================================================================
